---- MODULE Spec2Model ----
(***************************************************************************)
(* Model of projects/destinations_similarity/deploy.py: the deployment     *)
(* script that provisions a Flyte project, resolves the git version,       *)
(* builds the image tag, builds/pushes the image, packages the workflows   *)
(* and registers them.                                                     *)
(*                                                                         *)
(* Strings whose content matters (registry, version, tag) are sequences of *)
(* one-character strings, so that formatting, slicing and lower-casing are *)
(* computed and not assumed.                                               *)
(***************************************************************************)
EXTENDS Integers, Sequences, FiniteSets, TLC

\* ------------------------------------------------------------------ bounds

\* Number of invocations of the script in one behaviour.
MaxRuns == 2

\* The operators (processes) that may invoke the script.
Procs == {"p1", "p2"}

\* The operator whose runs follow one another in the sequential specification.
SeqProc == "p1"

\* ------------------------------------------------------------- characters

UpperAlpha ==
    <<"A","B","C","D","E","F","G","H","I","J","K","L","M",
      "N","O","P","Q","R","S","T","U","V","W","X","Y","Z">>

LowerAlpha ==
    <<"a","b","c","d","e","f","g","h","i","j","k","l","m",
      "n","o","p","q","r","s","t","u","v","w","x","y","z">>

HexDigits == {"0","1","2","3","4","5","6","7","8","9","a","b","c","d","e","f"}

\* str.lower() on one character.
LowerChar(c) ==
    IF \E i \in 1..Len(UpperAlpha) : UpperAlpha[i] = c
    THEN LowerAlpha[CHOOSE i \in 1..Len(UpperAlpha) : UpperAlpha[i] = c]
    ELSE c

\* str.lower()
Lower(s) == [i \in 1..Len(s) |-> LowerChar(s[i])]

IsLower(s) == \A i \in 1..Len(s) : ~(\E j \in 1..Len(UpperAlpha) : UpperAlpha[j] = s[i])

IsHex(s) == \A i \in 1..Len(s) : s[i] \in HexDigits

\* s[:n]
Prefix(s, n) == SubSeq(s, 1, IF n < Len(s) THEN n ELSE Len(s))

\* ------------------------------------------------------ program constants

IMAGE_NAME == <<"f","l","y","t","e","l","a","b">>

REGISTRY_LITERAL ==
    <<"g","h","c","r",".","i","o","/","p","a","t","r","i","c","k","f","b","r","a","z">>

REGISTRY == Lower(REGISTRY_LITERAL)

PROJECT_NAME == <<"v","a","m","o","s","-","d","a","l","h","e">>

\* The number of characters of uuid4().hex kept as the fast suffix.
UUID_SLICE == 7

FAST_INFIX == <<"-","f","a","s","t">>

\* ------------------------------------------------------------------ inputs

\* Commit identities (hexsha of HEAD) the repository can be at.
Commits == { <<"a","b","c","1","2","3">>, <<"d","e","f","4","5","6">> }

\* Values of --domain.
Domains == {"development", "staging"}

\* An optional value: None, or Some(v).
None == [some |-> FALSE, val |-> <<>>]
Some(v) == [some |-> TRUE, val |-> v]

\* Values of --registry: absent, a lower-case override, a mixed-case override.
RegistryArgs ==
    { None,
      Some(<<"m","y","r","e","g",".","i","o">>),
      Some(<<"G","h","c","r",".","I","O">>) }

\* Values uuid.uuid4().hex can take (shortened); the first two agree on their
\* first UUID_SLICE characters, the third differs from them there.
Uuid4Hex ==
    { <<"0","1","2","3","4","5","6","7","8">>,
      <<"0","1","2","3","4","5","6","f","f">>,
      <<"0","1","2","3","4","5","a","7","8">> }

\* Values FLYTE_SANDBOX can have in the invoking environment ("" is unset).
EnvSandboxValues == {"", "0", "1"}

\* ---------------------------------------------------------- pure functions

\* 'remote' if remote else 'sandbox': the cluster a run talks to.
ConfigType(remote) == IF remote THEN "remote" ELSE "sandbox"

Clusters == {ConfigType(TRUE), ConfigType(FALSE)}

\* Path(".flyte") / f"{config_type}-config.yaml" (create_project, register)
ClusterConfig(remote) ==
    IF remote THEN ".flyte/remote-config.yaml" ELSE ".flyte/sandbox-config.yaml"

\* Path(".flyte") / f"{'remote' if remote else 'sandbox'}.config" (build, serialize)
BuildConfig(remote) ==
    IF remote THEN ".flyte/remote.config" ELSE ".flyte/sandbox.config"

\* Variant: the abbreviated commit identity is returned.
get_version_Abbreviated(isFast, dirty, head) ==
    IF ~isFast /\ dirty
    THEN [raised |-> TRUE, code |-> 1, value |-> <<>>]
    ELSE [raised |-> FALSE, code |-> 0, value |-> Prefix(head, 4)]

\* Variant: the tree is not examined.
get_version_Unchecked(isFast, dirty, head) ==
    [raised |-> FALSE, code |-> 0, value |-> head]

\* get_version: raises typer.Exit(code=1) when not fast and the tree is dirty,
\* otherwise returns commit.hexsha of HEAD.
get_version(isFast, dirty, head) ==
    IF ~isFast /\ dirty
    THEN [raised |-> TRUE, code |-> 1, value |-> <<>>]
    ELSE [raised |-> FALSE, code |-> 0, value |-> head]

\* get_tag: f"{REGISTRY if registry is None else registry}/{IMAGE_NAME}:{PROJECT_NAME}-{version}"
get_tag(ver, reg) ==
    (IF ~reg.some THEN REGISTRY ELSE reg.val)
        \o <<"/">> \o IMAGE_NAME \o <<":">> \o PROJECT_NAME \o <<"-">> \o ver

\* Variant: the build is selected by the target alone.
ImageStage_IgnoresFast(isRemote, isFast) ==
    IF isRemote THEN "docker_build" ELSE "sandbox_docker_build"

\* main, lines 180-185: the stage that follows tag construction.
ImageStage(isRemote, isFast) ==
    IF ~isFast
    THEN IF isRemote THEN "docker_build" ELSE "sandbox_docker_build"
    ELSE "serialize"

\* Variant: the fast flag is passed whatever the run is.
PackageFlags_AlwaysFast(isFast) == "--fast"

\* serialize: ["--fast"] if fast else ["--in-container-source-path", "/home/flyte"]
PackageFlags(isFast) ==
    IF isFast THEN "--fast" ELSE "--in-container-source-path /home/flyte"

\* serialize: env={"FLYTE_SANDBOX": "1" if not remote else "0", **os.environ}:
\* a key of os.environ replaces the one written before it.
SerializeEnv(isRemote, environ) ==
    IF environ # "" THEN environ ELSE IF ~isRemote THEN "1" ELSE "0"

\* Variant: a shorter slice of the random identifier.
FinalVersion_ShortSlice(ver, isFast, u) ==
    IF isFast THEN ver \o FAST_INFIX \o Prefix(u, UUID_SLICE - 1) ELSE ver

\* Variant: the fast marker without the random identifier.
FinalVersion_NoSuffix(ver, isFast, u) ==
    IF isFast THEN ver \o FAST_INFIX ELSE ver

\* register: version = f"{version}-fast{uuid.uuid4().hex[:7]}" when fast.
FinalVersion(ver, isFast, u) ==
    IF isFast THEN ver \o FAST_INFIX \o Prefix(u, UUID_SLICE) ELSE ver

\* ------------------------------------------------------------------- state

VARIABLES
    pc,             \* pc[p]: where process p is in main ("idle" before its first run)
    args,           \* args[p]: the command-line arguments of p's current run
    version,        \* version[p]: main's local `version`
    tag,            \* tag[p]: main's local `tag`
    image,          \* image[p]: the Image returned by docker_build (its tags)
    exitCode,       \* exitCode[p]: exit status of p's last run, -1 while running
    calls,          \* calls[p]: the external calls of p's current run, in order
    out,            \* out[p]: what p's current run wrote with typer.echo
    runNo,          \* runNo[p]: the number of p's current run
    repoHead,       \* the commit HEAD of the working directory's repository
    repoDirty,      \* repo.is_dirty()
    projects,       \* clusters on which project PROJECT_NAME exists
    archive,        \* the file flyte-package.tgz of the working directory
    registrations,  \* the clusters' registration records
    localImages,    \* the local docker image store: tags and the content they name
    pushed,         \* references present in the remote image registry
    sandboxImages,  \* tags built inside the sandbox
    runs,           \* number of runs started
    createCalls,    \* history: create-project calls issued, per cluster
    createdOk,      \* history: create-project calls that succeeded, per cluster
    regHistory      \* history: the registration calls, in order

runVars == <<pc, args, version, tag, image, exitCode, calls, out, runNo>>
repoVars == <<repoHead, repoDirty>>
worldVars == <<projects, archive, registrations, localImages, pushed, sandboxImages>>
histVars == <<runs, createCalls, createdOk, regHistory>>
vars == <<runVars, repoVars, worldVars, histVars>>

NoArgs == [remote |-> FALSE, fast |-> FALSE, domain |-> "development", registry |-> None]

NoArchive == [exists |-> FALSE, tag |-> <<>>, flags |-> "", run |-> 0]

\* An archive that an earlier deployment left in the working directory.
StaleArchive ==
    [exists |-> TRUE, tag |-> get_tag(<<"0","0","0","0","0","0">>, None),
     flags |-> PackageFlags(FALSE), run |-> 0]

NoImage == [tags |-> <<>>]

\* One external call: the tool, the configuration file it is given, its main
\* argument, whether it succeeded, and what it printed that the script reads.
Ev(op, config, arg, domain, flags, env, ok) ==
    [op |-> op, config |-> config, arg |-> arg, domain |-> domain,
     flags |-> flags, env |-> env, ok |-> ok, stdout |-> <<>>]

\* What flytectl get project prints for a cluster that has, or has not, the project.
QueryStdout(existing, cluster) == IF cluster \in existing THEN PROJECT_NAME ELSE <<>>

Whitespace == {" ", "\t", "\n", "\r"}

\* Variant: the result of the query is not looked at.
StdoutEmpty_Unread(stdout) == TRUE

\* not output.stdout.decode().strip()
StdoutEmpty(stdout) == \A i \in 1..Len(stdout) : stdout[i] \in Whitespace

\* One line written with typer.echo.
Line(stream, msg, arg) == [stream |-> stream, msg |-> msg, arg |-> arg]

Init ==
    /\ pc = [p \in Procs |-> "idle"]
    /\ args = [p \in Procs |-> NoArgs]
    /\ version = [p \in Procs |-> <<>>]
    /\ tag = [p \in Procs |-> <<>>]
    /\ image = [p \in Procs |-> NoImage]
    /\ exitCode = [p \in Procs |-> -1]
    /\ calls = [p \in Procs |-> <<>>]
    /\ out = [p \in Procs |-> <<>>]
    /\ runNo = [p \in Procs |-> 0]
    /\ repoHead \in Commits
    /\ repoDirty \in BOOLEAN
    /\ projects \in SUBSET Clusters
    /\ archive \in {NoArchive, StaleArchive}
    /\ registrations = {}
    /\ localImages \in {{}} \cup {{[tag |-> get_tag(repoHead, g), commit |-> repoHead]} : g \in RegistryArgs}
    /\ pushed = {}
    /\ sandboxImages = {}
    /\ runs = 0
    /\ createCalls = [c \in Clusters |-> 0]
    /\ createdOk = [c \in Clusters |-> 0]
    /\ regHistory = <<>>

\* ----------------------------------------------------------------- actions

Idle(p) == pc[p] \in {"idle", "done"}

\* Variant: a stage that failed is entered again.
OnFailure_Retry(stage) == stage

\* Where main goes when the call of a stage raises: nothing in main or in the
\* stage functions catches, so the run is over.
OnFailure(stage) == "done"

\* An exception that nothing catches ends the run: the interpreter prints the
\* traceback and exits with status 1.
Uncaught(p, exc, lines) ==
    /\ pc' = [pc EXCEPT ![p] = OnFailure(pc[p])]
    /\ exitCode' = [exitCode EXCEPT ![p] = 1]
    /\ out' = [out EXCEPT ![p] = @ \o lines \o <<Line("err", exc, <<>>)>>]

\* What an invocation sets up before main runs.
Invoke(p, a) ==
    /\ args' = [args EXCEPT ![p] = a]
    /\ pc' = [pc EXCEPT ![p] = "main"]
    /\ runs' = runs + 1
    /\ runNo' = [runNo EXCEPT ![p] = runs + 1]
    /\ version' = [version EXCEPT ![p] = <<>>]
    /\ tag' = [tag EXCEPT ![p] = <<>>]
    /\ image' = [image EXCEPT ![p] = NoImage]
    /\ exitCode' = [exitCode EXCEPT ![p] = -1]
    /\ calls' = [calls EXCEPT ![p] = <<>>]
    /\ out' = [out EXCEPT ![p] = <<>>]
    /\ UNCHANGED <<repoVars, worldVars, createCalls, createdOk, regHistory>>

\* The script is invoked: app() parses the flags and calls main (lines 164-168, 190).
Start(p) ==
    /\ pc[p] = "idle"
    /\ \E r \in BOOLEAN, f \in BOOLEAN, d \in Domains, g \in RegistryArgs :
          Invoke(p, [remote |-> r, fast |-> f, domain |-> d, registry |-> g])

\* The operator invokes the script again after a run has ended, for the same
\* target, domain and registry; only --fast may change.
Restart(p) ==
    /\ pc[p] = "done"
    /\ runs < MaxRuns
    /\ \E f \in BOOLEAN : Invoke(p, [args[p] EXCEPT !.fast = f])

\* A second operator invokes the script in the same working directory while
\* (or after) the first one's run goes on, for the same target, domain and
\* registry; only --fast may differ.
StartAlongside(p) ==
    /\ p # SeqProc
    /\ pc[p] = "idle"
    /\ pc[SeqProc] # "idle"
    /\ \E f \in BOOLEAN : Invoke(p, [args[SeqProc] EXCEPT !.fast = f])

\* main, lines 170-176: the check of --remote with --fast.
Main(p) ==
    /\ pc[p] = "main"
    /\ out' = [out EXCEPT ![p] =
                 IF args[p].remote /\ args[p].fast
                 THEN Append(@, Line("err", "Fast registration is not enabled when deploying to remote.", <<>>))
                 ELSE @]
    /\ pc' = [pc EXCEPT ![p] = "create_project"]
    /\ UNCHANGED <<args, version, tag, image, exitCode, calls, runNo,
                   repoVars, worldVars, histVars>>

\* create_project, lines 24-39: flytectl get project, check=True.
QueryProject(p) ==
    /\ pc[p] = "create_project"
    /\ LET cluster == ConfigType(args[p].remote)
           ev(ok) == Ev("get_project", ClusterConfig(args[p].remote), PROJECT_NAME, "", "", "", ok)
           stdout == QueryStdout(projects, cluster)
       IN \/ /\ calls' = [calls EXCEPT ![p] = Append(@, ev(FALSE))]
             /\ Uncaught(p, "CalledProcessError", <<>>)
          \/ /\ calls' = [calls EXCEPT ![p] = Append(@, [ev(TRUE) EXCEPT !.stdout = stdout])]
             /\ IF StdoutEmpty(stdout)
                THEN /\ out' = [out EXCEPT ![p] = Append(@, Line("out", "Creating project", PROJECT_NAME))]
                     /\ pc' = [pc EXCEPT ![p] = "create"]
                ELSE /\ out' = out
                     /\ pc' = [pc EXCEPT ![p] = "get_version"]
             /\ exitCode' = exitCode
    /\ UNCHANGED <<args, version, tag, image, runNo, repoVars, worldVars, histVars>>

ALREADY_EXISTS == <<"e","x","i","s","t","s">>

\* What the cluster answers to a create request for a project it already has
\* (a duplicate, which it rejects or ignores) or has not.
CreateReply(existing, cluster) == IF cluster \in existing THEN ALREADY_EXISTS ELSE <<>>

\* create_project, lines 40-50: flytectl create project, check=True. The
\* request fails or succeeds; a duplicate that succeeds has been ignored.
CreateProject(p) ==
    /\ pc[p] = "create"
    /\ LET cluster == ConfigType(args[p].remote)
           ev(ok) == [Ev("create_project", ClusterConfig(args[p].remote), PROJECT_NAME, "", "", "", ok)
                        EXCEPT !.stdout = CreateReply(projects, cluster)]
       IN /\ createCalls' = [createCalls EXCEPT ![cluster] = @ + 1]
          /\ \/ /\ calls' = [calls EXCEPT ![p] = Append(@, ev(FALSE))]
                /\ Uncaught(p, "CalledProcessError", <<>>)
                /\ UNCHANGED <<projects, createdOk>>
             \/ /\ calls' = [calls EXCEPT ![p] = Append(@, ev(TRUE))]
                /\ projects' = projects \cup {cluster}
                /\ createdOk' = [createdOk EXCEPT ![cluster] = @ + 1]
                /\ pc' = [pc EXCEPT ![p] = "get_version"]
                /\ UNCHANGED <<exitCode, out>>
    /\ UNCHANGED <<args, version, tag, image, runNo, repoVars, archive, registrations,
                   localImages, pushed, sandboxImages, runs, regHistory>>

\* get_version (lines 53-67) and main, lines 178-181: resolve the version,
\* build the tag, select the image stage.
GetVersion(p) ==
    /\ pc[p] = "get_version"
    /\ LET r == get_version(args[p].fast, repoDirty, repoHead)
       IN IF r.raised
          THEN /\ out' = [out EXCEPT ![p] = Append(@, Line("err", "Please commit git changes before building.", <<>>))]
               /\ pc' = [pc EXCEPT ![p] = "done"]
               /\ exitCode' = [exitCode EXCEPT ![p] = r.code]
               /\ UNCHANGED <<version, tag>>
          ELSE /\ version' = [version EXCEPT ![p] = r.value]
               /\ tag' = [tag EXCEPT ![p] = get_tag(r.value, args[p].registry)]
               /\ pc' = [pc EXCEPT ![p] = ImageStage(args[p].remote, args[p].fast)]
               /\ UNCHANGED <<out, exitCode>>
    /\ UNCHANGED <<args, image, calls, runNo, repoVars, worldVars, histVars>>

\* sandbox_docker_build, lines 78-87: flytectl sandbox exec -- docker build.
SandboxDockerBuild(p) ==
    /\ pc[p] = "sandbox_docker_build"
    /\ LET ev(ok) == Ev("sandbox_docker_build", "", tag[p], "", "", "", ok)
           said == <<Line("out", "Building image in Flyte sandbox...", <<>>)>>
       IN \/ /\ calls' = [calls EXCEPT ![p] = Append(@, ev(FALSE))]
             /\ Uncaught(p, "CalledProcessError", said)
             /\ UNCHANGED sandboxImages
          \/ /\ calls' = [calls EXCEPT ![p] = Append(@, ev(TRUE))]
             /\ out' = [out EXCEPT ![p] = @ \o said]
             /\ sandboxImages' = sandboxImages \cup {tag[p]}
             /\ pc' = [pc EXCEPT ![p] = "serialize"]
             /\ UNCHANGED exitCode
    /\ UNCHANGED <<args, version, tag, image, runNo, repoVars, projects, archive,
                   registrations, localImages, pushed, histVars>>

\* The tag lists image.tags can be after a build under tag t of the content of
\* commit c: t alone, or t with a tag that an earlier build gave the same
\* content, in the order the image service reports them.
BuiltTags(t, c, store) ==
    {<<t>>} \cup
    UNION { { <<t, o.tag>>, <<o.tag, t>> } : o \in {x \in store : x.commit = c /\ x.tag # t} }

\* docker_build, lines 90-105: client.images.build(path=".", tag=tag, ...).
DockerBuild(p) ==
    /\ pc[p] = "docker_build"
    /\ LET ev(ok) == Ev("docker_build", BuildConfig(args[p].remote), tag[p], "", "", "", ok)
           said == <<Line("out", "Building image", tag[p])>>
       IN \/ /\ calls' = [calls EXCEPT ![p] = Append(@, ev(FALSE))]
             /\ Uncaught(p, "BuildError", said)
             /\ UNCHANGED <<image, localImages>>
          \/ /\ calls' = [calls EXCEPT ![p] = Append(@, ev(TRUE))]
             /\ out' = [out EXCEPT ![p] = @ \o said \o <<Line("out", "build log", <<>>)>>]
             /\ \E ts \in BuiltTags(tag[p], version[p], localImages) :
                   image' = [image EXCEPT ![p] = [tags |-> ts]]
             /\ localImages' = localImages \cup {[tag |-> tag[p], commit |-> version[p]]}
             /\ pc' = [pc EXCEPT ![p] = "docker_push"]
             /\ UNCHANGED exitCode
    /\ UNCHANGED <<args, version, tag, runNo, repoVars, projects, archive,
                   registrations, pushed, sandboxImages, histVars>>

\* The reference docker_push hands to the registry client: image.tags[0].
PushRef(img) == Head(img.tags)

\* docker_push, lines 108-113: every line of the push stream is echoed. The
\* client raises when the request itself is refused; a failure during the
\* transfer arrives as an error line of the stream, which is echoed like the rest.
DockerPush(p) ==
    /\ pc[p] = "docker_push"
    /\ LET ref == PushRef(image[p])
           ev(ok) == Ev("docker_push", "", ref, "", "", "", ok)
       IN \/ /\ calls' = [calls EXCEPT ![p] = Append(@, ev(FALSE))]
             /\ Uncaught(p, "APIError", <<>>)
             /\ UNCHANGED pushed
          \/ /\ calls' = [calls EXCEPT ![p] = Append(@, ev(FALSE))]
             /\ out' = [out EXCEPT ![p] = Append(@, Line("out", "push error line", ref))]
             /\ pc' = [pc EXCEPT ![p] = "serialize"]
             /\ UNCHANGED <<pushed, exitCode>>
          \/ /\ calls' = [calls EXCEPT ![p] = Append(@, ev(TRUE))]
             /\ out' = [out EXCEPT ![p] = Append(@, Line("out", "push status line", ref))]
             /\ pushed' = pushed \cup {ref}
             /\ pc' = [pc EXCEPT ![p] = "serialize"]
             /\ UNCHANGED exitCode
    /\ UNCHANGED <<args, version, tag, image, runNo, repoVars, projects, archive,
                   registrations, localImages, sandboxImages, histVars>>

\* The archive pyflyte package writes for a run.
PackagedArchive(t, isFast, run) ==
    [exists |-> TRUE, tag |-> t, flags |-> PackageFlags(isFast), run |-> run]

\* Variant: the old archive is not removed before packaging.
ArchiveAfter_KeepsOld(old, ok, produced) == IF ok THEN produced ELSE old

\* serialize, lines 121-135: the file at the archive's path after the old one
\* has been removed and the packaging tool has run.
ArchiveAfter(old, ok, produced) ==
    LET removed == NoArchive
    IN IF ok THEN produced ELSE removed

\* serialize, lines 116-138: remove the old archive, then pyflyte package, check=True.
Serialize(p) ==
    /\ pc[p] = "serialize"
    /\ \E environ \in EnvSandboxValues :
         LET ev(ok) == Ev("package", BuildConfig(args[p].remote), tag[p], "",
                          PackageFlags(args[p].fast),
                          SerializeEnv(args[p].remote, environ), ok)
             said == <<Line("out", "Serializing Flyte workflows...", <<>>)>>
             produced == PackagedArchive(tag[p], args[p].fast, runNo[p])
         IN \/ /\ calls' = [calls EXCEPT ![p] = Append(@, ev(FALSE))]
               /\ Uncaught(p, "CalledProcessError", said)
               /\ archive' = ArchiveAfter(archive, FALSE, produced)
            \/ /\ calls' = [calls EXCEPT ![p] = Append(@, ev(TRUE))]
               /\ out' = [out EXCEPT ![p] = @ \o said]
               /\ archive' = ArchiveAfter(archive, TRUE, produced)
               /\ pc' = [pc EXCEPT ![p] = "register"]
               /\ UNCHANGED exitCode
    /\ UNCHANGED <<args, version, tag, image, runNo, repoVars, projects,
                   registrations, localImages, pushed, sandboxImages, histVars>>

\* The record of one registration call.
RegCall(p, final, u, ok) ==
    [cluster |-> ConfigType(args[p].remote), domain |-> args[p].domain,
     base |-> version[p], final |-> final, fast |-> args[p].fast, uuid |-> u,
     ok |-> ok, run |-> runNo[p]]

\* Variant: without --force the record that is there is kept beside the new one.
Registered_NoOverwrite(regs, cluster, domain, ver, pkg) ==
    regs \cup {[cluster |-> cluster, project |-> PROJECT_NAME, domain |-> domain,
                version |-> ver, pkg |-> pkg]}

\* flytectl register files --force: the record at (project, domain, version)
\* is written, replacing the one that was there.
Registered(regs, cluster, domain, ver, pkg) ==
    {r \in regs : ~(r.cluster = cluster /\ r.domain = domain /\ r.version = ver)}
        \cup {[cluster |-> cluster, project |-> PROJECT_NAME, domain |-> domain,
               version |-> ver, pkg |-> pkg]}

\* register, lines 141-161: flytectl register files, check=True.
Register(p) ==
    /\ pc[p] = "register"
    /\ \E u \in (IF args[p].fast THEN Uuid4Hex ELSE {<<>>}) :
         LET final == FinalVersion(version[p], args[p].fast, u)
             ev(ok) == Ev("register", ClusterConfig(args[p].remote), final,
                          args[p].domain, "--force", "", ok)
             said == <<Line("out", "Registering Flyte workflows...", <<>>)>>
         IN \/ /\ calls' = [calls EXCEPT ![p] = Append(@, ev(FALSE))]
               /\ regHistory' = Append(regHistory, RegCall(p, final, u, FALSE))
               /\ Uncaught(p, "CalledProcessError", said)
               /\ UNCHANGED registrations
            \/ /\ archive.exists
               /\ calls' = [calls EXCEPT ![p] = Append(@, ev(TRUE))]
               /\ regHistory' = Append(regHistory, RegCall(p, final, u, TRUE))
               /\ registrations' = Registered(registrations, ConfigType(args[p].remote),
                                              args[p].domain, final, archive)
               /\ out' = [out EXCEPT ![p] =
                            @ \o said \o <<Line("out", "Successfully registered version", final)>>]
               /\ pc' = [pc EXCEPT ![p] = "done"]
               /\ exitCode' = [exitCode EXCEPT ![p] = 0]
    /\ UNCHANGED <<args, version, tag, image, runNo, repoVars, projects, archive,
                   localImages, pushed, sandboxImages, runs, createCalls, createdOk>>

\* --------------------------------------------------------------- environment

\* Between runs the operator edits the working tree ...
EditTree ==
    /\ \A p \in Procs : Idle(p)
    /\ runs < MaxRuns
    /\ ~repoDirty
    /\ repoDirty' = TRUE
    /\ UNCHANGED <<repoHead, runVars, worldVars, histVars>>

\* ... or commits (or checks out another commit).
CommitTree ==
    /\ \A p \in Procs : Idle(p)
    /\ runs < MaxRuns
    /\ \E c \in Commits \ {repoHead} : repoHead' = c
    /\ repoDirty' = FALSE
    /\ UNCHANGED <<runVars, worldVars, histVars>>

\* ------------------------------------------------------------ specification

\* The steps of a run that has been invoked.
Run(p) ==
    \/ Main(p)
    \/ QueryProject(p)
    \/ CreateProject(p)
    \/ GetVersion(p)
    \/ SandboxDockerBuild(p)
    \/ DockerBuild(p)
    \/ DockerPush(p)
    \/ Serialize(p)
    \/ Register(p)

Step(p) == Start(p) \/ Run(p)

\* One invocation of the script, from any state of the repository, the
\* clusters, the working directory and the local image store.
Next == Step(SeqProc)

Spec == Init /\ [][Next]_vars

\* Invocations by one operator, one after the other, against one cluster,
\* starting from an empty working directory and image store.
SeqInit == Init /\ archive = NoArchive /\ localImages = {}

SeqNext == Step(SeqProc) \/ Restart(SeqProc) \/ EditTree \/ CommitTree

SeqSpec == SeqInit /\ [][SeqNext]_vars

\* Two operators, each invoking the script once in the same working
\* directory, their runs interleaved at the external calls.
ConcInit == Init /\ archive = NoArchive /\ localImages = {} /\ projects = {}

ConcNext ==
    \/ Start(SeqProc)
    \/ \E p \in Procs : StartAlongside(p)
    \/ \E p \in Procs : Run(p)

ConcSpec == ConcInit /\ [][ConcNext]_vars

\* ------------------------------------------------------------------ claims

\* The indices of p's calls to one of the tools in ops.
CallsOf(p, ops) == {i \in 1..Len(calls[p]) : calls[p][i].op \in ops}

Called(p, ops) == CallsOf(p, ops) # {}

\* The messages p's run has written.
Said(p, msg) == \E i \in 1..Len(out[p]) : out[p][i].msg = msg

ImageOps == {"sandbox_docker_build", "docker_build", "docker_push"}

\* The position of a stage in the deployment sequence.
Rank(op) ==
    CASE op = "get_project" -> 1
      [] op = "create_project" -> 2
      [] op = "sandbox_docker_build" -> 3
      [] op = "docker_build" -> 3
      [] op = "docker_push" -> 4
      [] op = "package" -> 5
      [] op = "register" -> 6

\* C1: a run with --remote and --fast is rejected before anything else happens:
\* it makes no external call, resolves no version, and does not end successfully.
C1_RemoteFastRejected ==
    \A p \in Procs :
        (pc[p] # "idle" /\ args[p].remote /\ args[p].fast) =>
            /\ calls[p] = <<>>
            /\ version[p] = <<>>
            /\ pc[p] \in {"main", "done"}
            /\ (pc[p] = "done" => exitCode[p] # 0)

\* C2: the calls of a run follow the order of the stages, and registration is
\* called only when every call before it in the run has succeeded.
C2_StagesInOrder ==
    \A p \in Procs :
        /\ \A i, j \in 1..Len(calls[p]) :
              i < j => Rank(calls[p][i].op) < Rank(calls[p][j].op)
        /\ \A j \in CallsOf(p, {"register"}) :
              /\ \A i \in 1..(j - 1) : calls[p][i].ok
              /\ Called(p, {"get_project"})
              /\ Called(p, {"package"})
              /\ version[p] # <<>>
              /\ ~args[p].fast => Called(p, {"sandbox_docker_build", "docker_build"})
              /\ (~args[p].fast /\ args[p].remote) => Called(p, {"docker_push"})

\* C3: after a push that failed, the run calls neither packaging nor registration.
C3_PushFailureAborts ==
    \A p \in Procs :
        \A i \in CallsOf(p, {"docker_push"}) :
            ~calls[p][i].ok =>
                /\ \A j \in CallsOf(p, {"package", "register"}) : j < i
                /\ pc[p] = "done"
                /\ exitCode[p] # 0

\* C4: the version-resolution step fails exactly when the run is not fast and
\* the tree is dirty; otherwise it yields the full identity of HEAD.
C4_ResolveExactlyWhenAllowed ==
    [][\A p \in Procs :
          (pc[p] = "get_version" /\ pc'[p] # "get_version") =>
              IF ~args[p].fast /\ repoDirty
              THEN /\ pc'[p] = "done"
                   /\ exitCode'[p] # 0
                   /\ version'[p] = <<>>
              ELSE /\ pc'[p] # "done"
                   /\ version'[p] = repoHead]_vars

\* C4 witness: a fast run on a dirty tree has resolved the identity of HEAD.
C4_Witness ==
    \E p \in Procs :
        /\ args[p].fast /\ repoDirty
        /\ version[p] = repoHead
        /\ pc[p] = "serialize"

\* C5: a non-fast run on a dirty tree ends with exit status 1, and the only
\* calls it has made are the project query and the project creation.
C5_DirtyNonFastStops ==
    \A p \in Procs :
        (pc[p] # "idle" /\ ~args[p].fast /\ repoDirty) =>
            /\ pc[p] \in {"main", "create_project", "create", "get_version", "done"}
            /\ \A i \in 1..Len(calls[p]) : calls[p][i].op \in {"get_project", "create_project"}
            /\ (pc[p] = "done" => exitCode[p] = 1)

\* C5 witness: such a run has reached version resolution and has been stopped there.
C5_Witness ==
    \E p \in Procs :
        /\ ~args[p].fast /\ repoDirty
        /\ pc[p] = "done"
        /\ Said(p, "Please commit git changes before building.")
        /\ Called(p, {"create_project"})

\* C6: the image stage depends on (target, fast) alone: nothing when fast; the
\* sandbox build with the run's tag for a non-fast sandbox run; the local build
\* with the run's tag, and the push only after its success, for a non-fast
\* remote run.
C6_ImageStageSelection ==
    \A p \in Procs :
        LET past == pc[p] \in {"serialize", "register"} \/ Called(p, {"package"})
        IN /\ args[p].fast => ~Called(p, ImageOps)
           /\ (~args[p].fast /\ ~args[p].remote) =>
                 /\ ~Called(p, {"docker_build", "docker_push"})
                 /\ Cardinality(CallsOf(p, {"sandbox_docker_build"})) <= 1
                 /\ \A i \in CallsOf(p, {"sandbox_docker_build"}) : calls[p][i].arg = tag[p]
                 /\ past => Called(p, {"sandbox_docker_build"})
           /\ (~args[p].fast /\ args[p].remote) =>
                 /\ ~Called(p, {"sandbox_docker_build"})
                 /\ \A i \in CallsOf(p, {"docker_build"}) : calls[p][i].arg = tag[p]
                 /\ \A i \in CallsOf(p, {"docker_push"}) :
                       \E j \in CallsOf(p, {"docker_build"}) : j < i /\ calls[p][j].ok
                 /\ past => Called(p, {"docker_build", "docker_push"})
           /\ pc[p] \in {"sandbox_docker_build", "docker_build", "docker_push"} =>
                 tag[p] = get_tag(repoHead, args[p].registry)

\* C6 witness: a non-fast remote run has built and pushed and goes on to package.
C6_Witness ==
    \E p \in Procs :
        /\ ~args[p].fast /\ args[p].remote
        /\ pc[p] = "serialize"
        /\ \E i \in CallsOf(p, {"docker_push"}) : calls[p][i].ok

\* What every run does about project creation: a create call is the second
\* call of the run and follows a successful query that printed nothing; a
\* query that failed or printed the project is followed by no create call; a
\* run that has left the provisioning stage after an empty query has issued
\* exactly one create call.
ProvisionedOncePerRun(p) ==
    /\ Cardinality(CallsOf(p, {"create_project"})) <= 1
    /\ \A i \in CallsOf(p, {"create_project"}) :
          /\ i = 2
          /\ calls[p][1].op = "get_project"
          /\ calls[p][1].ok
          /\ calls[p][1].stdout = <<>>
    /\ \A i \in CallsOf(p, {"get_project"}) :
          /\ (~calls[p][i].ok \/ calls[p][i].stdout # <<>>) => ~Called(p, {"create_project"})
          /\ (calls[p][i].ok /\ calls[p][i].stdout = <<>> /\ pc[p] # "create") =>
                Cardinality(CallsOf(p, {"create_project"})) = 1

\* C7: no create call after a query that found the project, exactly one after
\* an empty query, none after a failed query, and over the sequential runs
\* against one cluster at most one create call in total.
C7_AtMostOneCreateCall ==
    /\ \A p \in Procs : ProvisionedOncePerRun(p)
    /\ \A c \in Clusters : createCalls[c] <= 1

\* C7 as amended: the same per run, and over the sequential runs against one
\* cluster at most one create call succeeds; a further create call is issued
\* only while every earlier one has failed.
C7_AtMostOneCreateSucceeds ==
    /\ \A p \in Procs : ProvisionedOncePerRun(p)
    /\ \A c \in Clusters :
          /\ createdOk[c] <= 1
          /\ createdOk[c] = 1 => c \in projects
          /\ \A p \in Procs :
                (pc[p] = "create" /\ ConfigType(args[p].remote) = c) => createdOk[c] = 0

\* C7 witness: a second run has created the project after the create call of
\* the first run failed.
C7_Witness ==
    \E c \in Clusters : createCalls[c] = 2 /\ createdOk[c] = 1

\* C8: the tag is {registry}/{image-name}:{project-name}-{version} with the
\* registry lower-cased, whether it is the default or the caller's override.
C8_RegistryLowerCased ==
    \A p \in Procs :
        tag[p] # <<>> =>
            LET reg == IF args[p].registry.some THEN args[p].registry.val ELSE REGISTRY_LITERAL
            IN /\ tag[p] = Lower(reg) \o <<"/">> \o IMAGE_NAME \o <<":">>
                              \o PROJECT_NAME \o <<"-">> \o version[p]
               /\ IsLower(Prefix(tag[p], Len(reg)))

\* s[from:]
Suffix(s, from) == SubSeq(s, from, Len(s))

\* C9: every build and the packaging receive the tag computed once for the
\* run, which ends in the resolved version; registration receives the resolved
\* version itself in a non-fast run, and the resolved version followed by
\* "-fast" and seven hexadecimal characters in a fast run.
C9_VersionAndTagComputedOnce ==
    \A p \in Procs :
        LET v == version[p]
        IN /\ \A i \in CallsOf(p, {"sandbox_docker_build", "docker_build", "package"}) :
                 /\ calls[p][i].arg = tag[p]
                 /\ v = repoHead
                 /\ Len(tag[p]) > Len(v) + Len(PROJECT_NAME)
                 /\ Suffix(tag[p], Len(tag[p]) - Len(v) + 1) = v
                 /\ Suffix(tag[p], Len(tag[p]) - Len(v) - Len(PROJECT_NAME)) =
                       PROJECT_NAME \o <<"-">> \o v
           /\ \A i \in CallsOf(p, {"register"}) :
                 LET final == calls[p][i].arg
                 IN /\ v = repoHead
                    /\ ~args[p].fast => final = v
                    /\ args[p].fast =>
                          /\ Len(final) = Len(v) + 5 + 7
                          /\ Prefix(final, Len(v)) = v
                          /\ SubSeq(final, Len(v) + 1, Len(v) + 5) = <<"-","f","a","s","t">>
                          /\ IsHex(Suffix(final, Len(v) + 6))

\* C9 witness: a fast run has packaged and has submitted its suffixed version.
C9_Witness ==
    \E p \in Procs :
        /\ args[p].fast
        /\ Called(p, {"package"})
        /\ \E i \in CallsOf(p, {"register"}) : calls[p][i].ok

\* Two registration calls that follow one another, both fast, of the same base
\* version to the same domain of the same cluster.
ConsecutiveFast(i) ==
    /\ i \in 1..(Len(regHistory) - 1)
    /\ regHistory[i].fast /\ regHistory[i + 1].fast
    /\ regHistory[i].base = regHistory[i + 1].base
    /\ regHistory[i].domain = regHistory[i + 1].domain
    /\ regHistory[i].cluster = regHistory[i + 1].cluster

\* C10: two consecutive fast registrations of one base version to one domain
\* submit two distinct final versions.
C10_FastVersionsDistinct ==
    \A i \in 1..Len(regHistory) :
        ConsecutiveFast(i) => regHistory[i].final # regHistory[i + 1].final

\* C10 as amended: their final versions are distinct exactly when the first
\* seven characters of the two random identifiers differ; when these agree the
\* final versions are equal, and the second registration, if it succeeds,
\* leaves its own archive as the record at that version.
C10_FastVersionsDistinctIffSuffixesDiffer ==
    \A i \in 1..Len(regHistory) :
        ConsecutiveFast(i) =>
            LET a == regHistory[i]
                b == regHistory[i + 1]
            IN /\ (a.final # b.final) <=> (Prefix(a.uuid, 7) # Prefix(b.uuid, 7))
               /\ (a.final = b.final /\ b.ok /\ i + 1 = Len(regHistory)) =>
                     \A r \in registrations :
                         (r.cluster = b.cluster /\ r.domain = b.domain /\ r.version = b.final)
                             => r.pkg.run = b.run

\* C10 witness: two such registrations have succeeded under distinct versions.
C10_Witness ==
    \E i \in 1..Len(regHistory) :
        /\ ConsecutiveFast(i)
        /\ regHistory[i].ok /\ regHistory[i + 1].ok
        /\ regHistory[i].final # regHistory[i + 1].final

\* The key of a registration record, and of a registration call.
RecKey(r) == <<r.cluster, r.domain, r.version>>
CallKey(h) == <<h.cluster, h.domain, h.final>>

\* The last call of p's run.
LastCall(p) == calls[p][Len(calls[p])]

\* C11: in sequential runs the archive a run registers is the one its own
\* packaging step has just written: a run about to register finds its own
\* archive; no registration call follows a failed packaging call; a failed
\* packaging step leaves no archive behind; and every record on a cluster
\* holds the archive of the run that registered that version.
C11_RegistersOwnArchive ==
    /\ \A p \in Procs :
          /\ pc[p] = "register" =>
                /\ archive.exists
                /\ archive.run = runNo[p]
                /\ archive.tag = tag[p]
          /\ \A i \in CallsOf(p, {"register"}) :
                \E j \in CallsOf(p, {"package"}) : j < i /\ calls[p][j].ok
          /\ (calls[p] # <<>> /\ LastCall(p).op = "package" /\ ~LastCall(p).ok) =>
                ~archive.exists
    /\ \A r \in registrations :
          /\ r.pkg.exists
          /\ \E i \in 1..Len(regHistory) :
                /\ regHistory[i].ok
                /\ CallKey(regHistory[i]) = RecKey(r)
                /\ regHistory[i].run = r.pkg.run

\* C11 witness: a second run has registered its own archive after the first
\* run had left one in the working directory.
C11_Witness ==
    /\ Len(regHistory) = 2
    /\ regHistory[1].ok /\ regHistory[2].ok
    /\ \E r \in registrations : r.pkg.run = 2
    /\ archive.run = 2

\* A run that has ended with status 0 and in which every call succeeded.
Succeeded(p) ==
    /\ pc[p] = "done"
    /\ exitCode[p] = 0
    /\ \A i \in 1..Len(calls[p]) : calls[p][i].ok

\* C12: after a successful non-fast remote run the reference that was pushed
\* is the run's tag, the one bound into the package, and the remote registry
\* holds it, whatever other tags the built image carries.
C12_PushesRunTag ==
    \A p \in Procs :
        (Succeeded(p) /\ args[p].remote /\ ~args[p].fast) =>
            /\ \A i \in CallsOf(p, {"docker_push"}) : calls[p][i].arg = tag[p]
            /\ \A i \in CallsOf(p, {"package"}) : calls[p][i].arg = tag[p]
            /\ tag[p] \in pushed

\* C13: with --remote and --fast the run writes the warning to the error
\* stream, then the rejection, and ends unsuccessfully without going further.
C13_WarningThenRejection ==
    \A p \in Procs :
        (args[p].remote /\ args[p].fast /\ pc[p] \notin {"idle", "main"}) =>
            /\ Len(out[p]) >= 2
            /\ out[p][1].stream = "err"
            /\ out[p][1].msg = "Fast registration is not enabled when deploying to remote."
            /\ out[p][2].stream = "err"
            /\ out[p][2].msg = "ConfigurationError"
            /\ pc[p] = "done"
            /\ exitCode[p] # 0
            /\ calls[p] = <<>>

\* C14: the packaging tool sees FLYTE_SANDBOX = "1" for a sandbox run and "0"
\* for a remote run, whatever the invoking environment holds.
C14_SandboxDiscriminatorMatchesTarget ==
    \A p \in Procs :
        \A i \in CallsOf(p, {"package"}) :
            calls[p][i].env = IF args[p].remote THEN "0" ELSE "1"

\* The create calls of p that the cluster took for a duplicate.
DuplicateCreates(p) ==
    {i \in CallsOf(p, {"create_project"}) : calls[p][i].stdout = ALREADY_EXISTS}

\* The runs whose create call made the project on cluster c.
Creators(c) ==
    {p \in Procs :
        /\ ConfigType(args[p].remote) = c
        /\ \E i \in CallsOf(p, {"create_project"}) :
              calls[p][i].ok /\ calls[p][i].stdout = <<>>}

\* C15: of concurrent first-time runs, at most one creates the project, and a
\* run whose create request the cluster rejects or ignores as a duplicate is
\* not stopped by it: it goes on to resolve the version, so that if it ends
\* with that call as its last, it is version resolution that has ended it.
C15_DuplicateCreateIsBenign ==
    /\ \A c \in Clusters : Cardinality(Creators(c)) <= 1
    /\ \A p \in Procs :
          \A i \in DuplicateCreates(p) :
              (pc[p] = "done" /\ Len(calls[p]) = i) =>
                  Said(p, "Please commit git changes before building.")

\* The archive the packaging step of p's run writes.
OwnArchive(p) ==
    [exists |-> TRUE, tag |-> tag[p],
     flags |-> IF args[p].fast THEN "--fast" ELSE "--in-container-source-path /home/flyte",
     run |-> runNo[p]]

\* C16: nothing protects the archive between runs in one working directory. A
\* run about to register finds at the archive's path its own archive, or what
\* the packaging step of the other run has left there since: the other run's
\* archive, or no file when that packaging failed. Every record on a cluster
\* holds the archive of one of the runs, not always of the run that registered.
C16_RegistersWhatIsOnDisk ==
    /\ \A p \in Procs :
          pc[p] = "register" =>
              \/ archive = OwnArchive(p)
              \/ \E q \in Procs \ {p} :
                    \E j \in CallsOf(q, {"package"}) :
                        archive = IF calls[q][j].ok THEN OwnArchive(q) ELSE NoArchive
    /\ \A r \in registrations : \E q \in Procs : r.pkg = OwnArchive(q)

\* C16 witness: a fast run has registered, under its own version, the archive
\* that the packaging step of the other, non-fast run wrote.
C16_Witness ==
    \E p \in Procs, q \in Procs :
        /\ p # q
        /\ args[p].fast /\ ~args[q].fast
        /\ pc[p] = "done" /\ exitCode[p] = 0
        /\ LastCall(p).op = "register"
        /\ \E r \in registrations :
              /\ r.version = LastCall(p).arg
              /\ r.pkg = OwnArchive(q)

\* C16 witness of the other outcome: a run about to register finds the archive
\* removed by the other run's packaging step.
C16_WitnessDeleted ==
    \E p \in Procs : pc[p] = "register" /\ ~archive.exists

\* The keys registered on the clusters.
Keys(regs) == {RecKey(r) : r \in regs}

\* Two successful non-fast registration calls of the same commit to the same
\* domain of the same cluster (in these runs the registry is the same too).
SameFullDeployment(i, j) ==
    /\ i < j
    /\ regHistory[i].ok /\ regHistory[j].ok
    /\ ~regHistory[i].fast /\ ~regHistory[j].fast
    /\ regHistory[i].base = regHistory[j].base
    /\ regHistory[i].domain = regHistory[j].domain
    /\ regHistory[i].cluster = regHistory[j].cluster

\* C17: a non-fast deployment run again from the same commit, target, domain
\* and registry submits the same version and binds the same tag, and its
\* registration replaces the record at that key: the clusters hold one record
\* per key, the keys are those of the successful registration calls, and the
\* record at the repeated key holds the later run's archive.
C17_FullRedeployIsIdempotent ==
    /\ \A r1, r2 \in registrations : RecKey(r1) = RecKey(r2) => r1 = r2
    /\ Keys(registrations) =
          {CallKey(regHistory[i]) : i \in {k \in 1..Len(regHistory) : regHistory[k].ok}}
    /\ \A i, j \in 1..Len(regHistory) :
          SameFullDeployment(i, j) =>
              /\ regHistory[i].final = regHistory[j].final
              /\ regHistory[j].final = regHistory[j].base
              /\ \A p \in Procs :
                    (runNo[p] = regHistory[j].run /\ j = Len(regHistory)) =>
                        \E r \in registrations :
                            /\ RecKey(r) = CallKey(regHistory[j])
                            /\ r.pkg.run = regHistory[j].run
                            /\ r.pkg.tag = get_tag(regHistory[i].base, args[p].registry)

\* C17 witness: the same commit has been deployed non-fast twice, and the
\* clusters hold the one record of it.
C17_Witness ==
    /\ Len(regHistory) = 2
    /\ SameFullDeployment(1, 2)
    /\ Cardinality(registrations) = 1

StageOps ==
    {"get_project", "create_project", "sandbox_docker_build", "docker_build",
     "docker_push", "package", "register"}

\* C18: within one run each external call is made at most once, whether it
\* succeeds or fails, and a call that raised is the last call of the run.
C18_NoCallRepeated ==
    \A p \in Procs :
        /\ \A op \in StageOps : Cardinality(CallsOf(p, {op})) <= 1
        /\ \A i \in 1..Len(calls[p]) : calls[p][i].op \in StageOps
        /\ \A i \in 1..Len(calls[p]) :
              (~calls[p][i].ok /\ calls[p][i].op # "docker_push") =>
                  /\ i = Len(calls[p])
                  /\ pc[p] = "done"

\* C18 witness: a run has ended on a call that failed, having made it once.
C18_Witness ==
    \E p \in Procs :
        /\ pc[p] = "done"
        /\ calls[p] # <<>>
        /\ LastCall(p).op = "package"
        /\ ~LastCall(p).ok
        /\ Called(p, {"docker_push"})

\* The success reports of p's run.
SuccessReports(p) ==
    {i \in 1..Len(out[p]) : out[p][i].msg = "Successfully registered version"}

\* C19: the success report is written only after the registration call has
\* succeeded, it names the version submitted in that call, and a run in which
\* a stage failed writes no success report.
C19_SuccessReportOnlyOnSuccess ==
    \A p \in Procs :
        \A i \in SuccessReports(p) :
            /\ calls[p] # <<>>
            /\ LastCall(p).op = "register"
            /\ LastCall(p).ok
            /\ out[p][i].arg = LastCall(p).arg
            /\ i = Len(out[p])
            /\ \A j \in 1..Len(calls[p]) : calls[p][j].ok

====
